---- MODULE Spec2Model ----
(***************************************************************************)
(* Player control subsystem of sonicradio.                                 *)
(*                                                                         *)
(*   SpecCtor   : construction of the socket backend (NewMPVSocket)        *)
(*   SpecIpc    : the socket backend's operations over the shared          *)
(*                connection, called by the control path and the poller    *)
(*   SpecIpcLive: SpecIpc with its callers scheduled fairly                *)
(*   SpecFF     : the scrape backend (FFPlay), its control path and the    *)
(*                metadata poller running concurrently                     *)
(*   SpecClock  : the scrape backend's control path as time passes         *)
(*   SpecPlay   : the control path alone as time passes, no process ends  *)
(*                by itself                                                *)
(*   SpecMtx    : the scrape backend's clock operations, statement by      *)
(*                statement, under playTimeMtx                             *)
(*   SpecPoll   : the scrape backend's calls and polls made one at a time  *)
(*                as time passes                                           *)
(*   SpecScrape : the scrape backend with the engine's diagnostic output,  *)
(*                its calls made one at a time                             *)
(*                                                                         *)
(* Every specification shares the variables below; an action leaves the    *)
(* variables of the other parts unchanged.                                 *)
(***************************************************************************)
EXTENDS Integers, Sequences, FiniteSets, TLC

VARIABLES
    \* ---- NewMPVSocket (player/mpv_socket.go) ----
    ctorPc,         \* position of the constructor
    ctorErr,        \* error returned by the constructor ("none" while running / on success)
    ctorRet,        \* value returned: "pending", "nil" or "mpv"
    ctorClock,      \* milliseconds elapsed since `start := time.Now()`
    ctorTimer,      \* deadline of the timer made by the last time.After, -1 before the first
    ctxDone,        \* ctx.Done() is closed
    sockFileExists, \* os.Stat(mpv.sockFile) finds the file
    mpvCmdStarted,  \* mpvCmd started the engine process
    ctorConn,       \* mpv.conn was set
    \* ---- MpvSocket (player/mpv_socket.go) ----
    connOpen,       \* mpv.conn has not been closed by Close()
    engineUp,       \* the engine holds its end of the connection
    toEngine,       \* request lines written to the connection, not yet taken by the engine
    fromEngine,     \* lines written by the engine, not yet read from the connection
    pc,             \* per caller: "idle", "scan", "ret" or "done"
    op,             \* per caller: the operation in progress, its step and argument
    req,            \* per caller: the command and request_id of its ipcRequest
    scanBuf,        \* per caller: lines its bufio.Scanner has read and not yet returned
    skipped,        \* per caller: the kinds of line the scan loop of its ipcRequest has
                    \* skipped so far
    matched,        \* per caller: the line this ipcRequest answered with, if any
    ipcRet,         \* per caller: what ipcRequest returned
    opRet,          \* per caller: what the last finished operation returned
    \* ---- FFPlay (player/ffplay/ffplay.go) ----
    ff,             \* the FFPlay struct, the engine processes and their stderr buffers
    now,            \* the time, in ticks
    pollPc,         \* position of the poller in Metadata(): "idle", "checked", "done", "fault"
    pollP,          \* the process handle Metadata() found, 0 for nil
    output,         \* Metadata()'s local `output`
    meta,           \* what Metadata() returns
    ffRet,          \* the control path's last call and what it returned
    playCalled,     \* Play was called
    scen,           \* how far the calls so far follow Play, Pause(true), Pause(false), Stop
    ranFor,         \* ticks a process was held since the last successful Play
    runA,           \* in the sequence of scen: ticks from Play to Pause(true)
    gap,            \* in the sequence of scen: ticks from Pause(true) to Pause(false)
    \* ---- FFPlay.playTimeMtx and the clock operations, statement by statement ----
    mtx,            \* the holder of playTimeMtx: "none", "ctl" or "poll"
    clk,            \* per goroutine: the clock operation it is in and its position
    clkD,           \* getPlayTime's local d
    clkAt,          \* the time getPlayTime took its reading at
    clkRet          \* what getPlayTime returned last

ctorVars == <<ctorPc, ctorErr, ctorRet, ctorClock, ctorTimer, ctxDone,
              sockFileExists, mpvCmdStarted, ctorConn>>

ipcVars == <<connOpen, engineUp, toEngine, fromEngine, pc, op, req, scanBuf,
             skipped, matched, ipcRet, opRet>>

ffVars == <<ff, now, pollPc, pollP, output, meta, ffRet, playCalled, scen, ranFor,
            runA, gap>>

mtxVars == <<mtx, clk, clkD, clkAt, clkRet>>

vars == <<ctorVars, ipcVars, ffVars, mtxVars>>

\* What the actions of one part leave unchanged.
notCtor == <<ipcVars, ffVars, mtxVars>>

notIpc == <<ctorVars, ffVars, mtxVars>>

notFF == <<ctorVars, ipcVars, mtxVars>>

-----------------------------------------------------------------------------
(* Construction of the socket backend *)

\* var socketTimeout = time.Second * 2, in milliseconds
socketTimeout == 2000

\* var socketSleepRetry = time.Millisecond * 10, in milliseconds
socketSleepRetry == 10

\* The constructor's wait is followed up to this many milliseconds.
MaxWait == 2100

CtorInit ==
    /\ ctorPc = "mpvCmd"
    /\ ctorErr = "none"
    /\ ctorRet = "pending"
    /\ ctorClock = 0
    /\ ctorTimer = -1
    /\ ctxDone = FALSE
    /\ sockFileExists = FALSE
    /\ mpvCmdStarted = FALSE
    /\ ctorConn = FALSE

\* A select that does not look at ctx.Done().
ReadyCases_NoCancel(done, clock, deadline) ==
    IF clock >= deadline THEN {"timeout"} ELSE {}

\* The cases of the select statement that can proceed: a closed ctx.Done(), and the
\* channel of a timer whose deadline has passed.
ReadyCases(done, clock, deadline) ==
    (IF done THEN {"ctxDone"} ELSE {}) \cup (IF clock >= deadline THEN {"timeout"} ELSE {})

\* mpvCmd(mpv.sockFile): the engine is started, or the start fails and the
\* constructor returns the error.
CtorMpvCmd ==
    /\ ctorPc = "mpvCmd"
    /\ \E ok \in BOOLEAN :
          IF ok
          THEN /\ mpvCmdStarted' = TRUE
               /\ ctorPc' = "loop"
               /\ UNCHANGED <<ctorErr, ctorRet>>
          ELSE /\ ctorPc' = "done"
               /\ ctorErr' = "StartFailure"
               /\ ctorRet' = "nil"
               /\ UNCHANGED mpvCmdStarted
    /\ UNCHANGED <<ctorClock, ctorTimer, ctxDone, sockFileExists, ctorConn>>
    /\ UNCHANGED notCtor

\* One iteration of `for { select { ... } }`. The channel operands are evaluated on
\* entering the select, so time.After(socketTimeout) makes a new timer in every
\* iteration; a case that can proceed is chosen at random, default only if none can.
CtorLoop ==
    /\ ctorPc = "loop"
    /\ LET timer == ctorClock + socketTimeout
           ready == ReadyCases(ctxDone, ctorClock, timer)
       IN  /\ ctorTimer' = timer
           /\ IF ready # {}
              THEN /\ \E c \in ready :
                         ctorErr' = IF c = "ctxDone" THEN "ErrCtxCancel"
                                                     ELSE "ErrSocketFileTimeout"
                   /\ ctorPc' = "done"
                   /\ ctorRet' = "nil"
                   /\ UNCHANGED ctorClock
              ELSE IF ~sockFileExists
                   THEN /\ ctorClock < MaxWait
                        /\ ctorClock' = ctorClock + socketSleepRetry
                        /\ UNCHANGED <<ctorPc, ctorErr, ctorRet>>
                   ELSE /\ ctorPc' = "getConn"
                        /\ UNCHANGED <<ctorClock, ctorErr, ctorRet>>
    /\ UNCHANGED <<ctxDone, sockFileExists, mpvCmdStarted, ctorConn>>
    /\ UNCHANGED notCtor

\* getConn(ctx, mpv.sockFile): the connection is opened and the object returned, or
\* the error is.
CtorGetConn ==
    /\ ctorPc = "getConn"
    /\ \E ok \in BOOLEAN :
          IF ok
          THEN /\ ctorConn' = TRUE
               /\ ctorRet' = "mpv"
               /\ UNCHANGED ctorErr
          ELSE /\ ctorErr' = "ConnError"
               /\ ctorRet' = "nil"
               /\ UNCHANGED ctorConn
    /\ ctorPc' = "done"
    /\ UNCHANGED <<ctorClock, ctorTimer, ctxDone, sockFileExists, mpvCmdStarted>>
    /\ UNCHANGED notCtor

\* The application cancels the context.
CtxCancel ==
    /\ ~ctxDone
    /\ ctorPc # "done"
    /\ ctxDone' = TRUE
    /\ UNCHANGED <<ctorPc, ctorErr, ctorRet, ctorClock, ctorTimer, sockFileExists,
                   mpvCmdStarted, ctorConn>>
    /\ UNCHANGED notCtor

\* The started engine creates its socket file.
EngineCreatesSocket ==
    /\ mpvCmdStarted
    /\ ~sockFileExists
    /\ ctorPc = "loop"
    /\ sockFileExists' = TRUE
    /\ UNCHANGED <<ctorPc, ctorErr, ctorRet, ctorClock, ctorTimer, ctxDone,
                   mpvCmdStarted, ctorConn>>
    /\ UNCHANGED notCtor

-----------------------------------------------------------------------------
(* The socket backend: requests and responses on the shared connection *)

\* The control path and the metadata poller share one MpvSocket.
Callers == {"ctl", "poll"}

Other(c) == IF c = "ctl" THEN "poll" ELSE "ctl"

\* ipcRequest draws its request_id with rand.IntN(999) + 1; the model draws it
\* from 1..IdRange.
IdRange == 2

\* Values of the `any` field Data of a response, with their dynamic type.
Nil == [t |-> "nil", s |-> "", n |-> 0]

Str(s) == [t |-> "string", s |-> s, n |-> 0]

Num(n) == [t |-> "float64", s |-> "", n |-> n]

NoErr == "none"

\* The data the engine answers a command with.
ReplyData(cmd) ==
    CASE cmd = "metadata" -> {Str("{icy-title}")}
      [] cmd = "playbackTime" -> {Num(3)}
      [] OTHER -> {Nil}

\* A line on the connection. owner is the caller whose request the line answers
\* ("none" for a line that answers no request): it is not on the wire.
NoLine == [kind |-> "none", id |-> 0, error |-> "", data |-> Nil, owner |-> "none"]

ReplyLines(r) ==
    { [kind |-> "resp", id |-> r.id, error |-> e, data |-> d, owner |-> r.from] :
        e \in {"success", "error"}, d \in ReplyData(r.cmd) }

\* Lines that answer no request: an event notification (it has no request_id) and
\* a line that is not JSON.
NoiseLines ==
    { [kind |-> "event", id |-> 0, error |-> "", data |-> Nil, owner |-> "none"],
      [kind |-> "junk", id |-> 0, error |-> "", data |-> Nil, owner |-> "none"] }

\* json.Unmarshal(l, &res) into ipcResp: a line that is not JSON is an error; a
\* missing request_id leaves Id at 0, a missing error leaves Error empty.
Unmarshal(l) ==
    IF l.kind = "junk"
    THEN [ok |-> FALSE, Id |-> 0, Error |-> "", Data |-> Nil]
    ELSE [ok |-> TRUE, Id |-> l.id, Error |-> l.error, Data |-> l.data]

\* What a line is to a request with the given id: "match" (a response with that
\* id), "other" (a response with another id) or "noise" (no response at all).
LineKind(l, id) ==
    IF l.kind = "resp" THEN (IF l.id = id THEN "match" ELSE "other") ELSE "noise"

iprRespSuccess == "success"

\* A scan loop that skips only the lines it cannot decode.
SkipsLine_AnyId(r, id) == ~r.ok

\* The scan loop `continue`s on a decode error and on res.Id != id.
SkipsLine(r, id) == ~r.ok \/ r.Id # id

\* What ipcRequest returns for the first line it does not skip.
AnswerOf(r) ==
    IF r.Error # iprRespSuccess
    THEN [data |-> Nil, err |-> "ipc response error"]
    ELSE [data |-> r.Data, err |-> NoErr]

\* The command (a key of ipcCmds) an operation sends first.
FirstCmd(name, arg) ==
    CASE name = "Play" -> "unpause"
      [] name = "Pause" -> IF arg = 1 THEN "pause" ELSE "unpause"
      [] name = "Stop" -> "stop"
      [] name = "SetVolume" -> "volume"
      [] name = "Close" -> "quit"
      [] name = "Metadata" -> "metadata"

\* SetVolume's clamp of its argument.
ClampVolume(value) == IF value < 0 THEN 0 ELSE IF value > 100 THEN 100 ELSE value

\* Arguments SetVolume is called with.
VolumeInputs == {-1, 50, 101}

\* The calls of the control path: operation and argument (Pause: 1 is true).
CtlCalls ==
    { <<"Play", 0>>, <<"Pause", 0>>, <<"Pause", 1>>, <<"Stop", 0>>, <<"Close", 0>> }
    \cup { <<"SetVolume", v>> : v \in VolumeInputs }

NoOp == [name |-> "none", step |-> 0, arg |-> 0]

NoReq == [cmd |-> "none", id |-> 0]

NoIpcRet == [data |-> Nil, err |-> NoErr]

NoRet == [name |-> "none", val |-> Nil, err |-> NoErr, time |-> Nil]

IpcInit ==
    /\ connOpen = TRUE
    /\ engineUp = TRUE
    /\ toEngine = <<>>
    /\ fromEngine = <<>>
    /\ pc = [c \in Callers |-> "idle"]
    /\ op = [c \in Callers |-> NoOp]
    /\ req = [c \in Callers |-> NoReq]
    /\ scanBuf = [c \in Callers |-> <<>>]
    /\ skipped = [c \in Callers |-> {}]
    /\ matched = [c \in Callers |-> NoLine]
    /\ ipcRet = [c \in Callers |-> NoIpcRet]
    /\ opRet = [c \in Callers |-> NoRet]

\* ipcRequest(command) up to mpv.conn.Write and bufio.NewScanner, by caller c: the
\* id is drawn and the line written; a failed write returns the error.
IpcWrite(c, cmd) ==
    /\ \E id \in 1..IdRange :
          /\ req' = [req EXCEPT ![c] = [cmd |-> cmd, id |-> id]]
          /\ IF connOpen /\ engineUp
             THEN /\ toEngine' = Append(toEngine, [cmd |-> cmd, id |-> id, from |-> c])
                  /\ pc' = [pc EXCEPT ![c] = "scan"]
                  /\ ipcRet' = [ipcRet EXCEPT ![c] = NoIpcRet]
             ELSE /\ ipcRet' = [ipcRet EXCEPT ![c] = [data |-> Nil, err |-> "ipc write err"]]
                  /\ pc' = [pc EXCEPT ![c] = "ret"]
                  /\ UNCHANGED toEngine
    /\ scanBuf' = [scanBuf EXCEPT ![c] = <<>>]
    /\ skipped' = [skipped EXCEPT ![c] = {}]
    /\ matched' = [matched EXCEPT ![c] = NoLine]

\* A caller enters an operation and runs it up to the write of its first
\* ipcRequest. No call is made after Close.
Call(c, name, arg) ==
    /\ pc[c] = "idle"
    /\ connOpen
    /\ op' = [op EXCEPT ![c] =
                 [name |-> name, step |-> 1,
                  arg |-> IF name = "SetVolume" THEN ClampVolume(arg) ELSE 0]]
    /\ IpcWrite(c, FirstCmd(name, arg))
    /\ UNCHANGED <<connOpen, engineUp, fromEngine, opRet>>
    /\ UNCHANGED notIpc

CtlCall == \E call \in CtlCalls : Call("ctl", call[1], call[2])

PollCall == Call("poll", "Metadata", 0)

\* One scanner.Scan() and the loop body for its line. A scanner with no buffered
\* line reads the connection and takes what the engine has written; it blocks while
\* there is nothing to read, and ends the loop at end of stream or on a read error.
IpcScan(c) ==
    /\ pc[c] = "scan"
    /\ IF scanBuf[c] = <<>> /\ (~connOpen \/ fromEngine = <<>>)
       THEN /\ ~connOpen \/ ~engineUp
            /\ ipcRet' = [ipcRet EXCEPT ![c] =
                             [data |-> Nil,
                              err |-> IF ~connOpen THEN "scanner error"
                                                   ELSE "missing ipc response"]]
            /\ pc' = [pc EXCEPT ![c] = "ret"]
            /\ UNCHANGED <<fromEngine, scanBuf, skipped, matched>>
       ELSE LET buf == IF scanBuf[c] = <<>> THEN fromEngine ELSE scanBuf[c]
                l == Head(buf)
                r == Unmarshal(l)
            IN  /\ fromEngine' = IF scanBuf[c] = <<>> THEN <<>> ELSE fromEngine
                /\ scanBuf' = [scanBuf EXCEPT ![c] = Tail(buf)]
                /\ IF SkipsLine(r, req[c].id)
                   THEN /\ skipped' = [skipped EXCEPT ![c] = @ \cup {LineKind(l, req[c].id)}]
                        /\ UNCHANGED <<pc, ipcRet, matched>>
                   ELSE /\ ipcRet' = [ipcRet EXCEPT ![c] = AnswerOf(r)]
                        /\ matched' = [matched EXCEPT ![c] = l]
                        /\ pc' = [pc EXCEPT ![c] = "ret"]
                        /\ UNCHANGED skipped
    /\ UNCHANGED <<connOpen, engineUp, toEngine, op, req, opRet>>
    /\ UNCHANGED notIpc

\* A Play that sends the load command whatever the unpause command returned.
NextRequest_LoadAnyway(o, ret) ==
    CASE o.name = "Play" /\ o.step = 1 -> "play"
      [] o.name = "Metadata" /\ o.step = 1 -> "playbackTime"
      [] OTHER -> "none"

\* The command an operation sends after its ipcRequest returned, "none" if it sends
\* no other: Play sends the load command after a successful unpause, Metadata asks
\* for the playback time whatever getMetadata gave.
NextRequest(o, ret) ==
    CASE o.name = "Play" /\ o.step = 1 /\ ret.err = NoErr -> "play"
      [] o.name = "Metadata" /\ o.step = 1 -> "playbackTime"
      [] OTHER -> "none"

\* A Close that reports the error of closing the connection before that of quit.
OpResult_CloseErrFirst(o, ret, m, closeErr) ==
    CASE o.name = "SetVolume" ->
           [name |-> "SetVolume", val |-> Num(o.arg), err |-> ret.err, time |-> Nil]
      [] o.name = "Metadata" -> [m EXCEPT !.time = ret.data]
      [] o.name = "Close" ->
           [name |-> "Close", val |-> Nil, time |-> Nil, closeErr |-> closeErr,
            err |-> IF closeErr # NoErr THEN closeErr ELSE ret.err]
      [] OTHER -> [name |-> o.name, val |-> Nil, err |-> ret.err, time |-> Nil]

\* What an operation returns once its last ipcRequest returned ret; m is what
\* Metadata's first request gave, closeErr what mpv.conn.Close() returned.
OpResult(o, ret, m, closeErr) ==
    CASE o.name = "SetVolume" ->
           [name |-> "SetVolume", val |-> Num(o.arg), err |-> ret.err, time |-> Nil]
      [] o.name = "Metadata" -> [m EXCEPT !.time = ret.data]
      [] o.name = "Close" ->
           [name |-> "Close", val |-> Nil, time |-> Nil, closeErr |-> closeErr,
            err |-> IF ret.err = NoErr THEN closeErr ELSE ret.err]
      [] OTHER -> [name |-> o.name, val |-> Nil, err |-> ret.err, time |-> Nil]

\* The operation continues after ipcRequest returned: it makes its next request, or
\* it returns (Close after closing the connection).
OpStep(c) ==
    /\ pc[c] = "ret"
    /\ IF NextRequest(op[c], ipcRet[c]) # "none"
       THEN /\ IpcWrite(c, NextRequest(op[c], ipcRet[c]))
            /\ op' = [op EXCEPT ![c].step = 2]
            /\ opRet' = [opRet EXCEPT ![c] =
                            [name |-> op[c].name, val |-> ipcRet[c].data,
                             err |-> ipcRet[c].err, time |-> Nil]]
            /\ UNCHANGED <<connOpen, fromEngine>>
       ELSE /\ pc' = [pc EXCEPT ![c] = "done"]
            /\ req' = [req EXCEPT ![c] = NoReq]
            /\ IF op[c].name = "Close"
               THEN connOpen' = FALSE /\ toEngine' = <<>> /\ fromEngine' = <<>>
               ELSE UNCHANGED <<connOpen, toEngine, fromEngine>>
            /\ \E closeErr \in IF op[c].name = "Close" THEN {NoErr, "close error"}
                                                       ELSE {NoErr} :
                  opRet' = [opRet EXCEPT ![c] =
                               OpResult(op[c], ipcRet[c], opRet[c], closeErr)]
            /\ scanBuf' = [scanBuf EXCEPT ![c] = <<>>]
            /\ skipped' = [skipped EXCEPT ![c] = {}]
            /\ matched' = [matched EXCEPT ![c] = NoLine]
            /\ ipcRet' = [ipcRet EXCEPT ![c] = NoIpcRet]
            /\ UNCHANGED op
    /\ UNCHANGED <<engineUp>>
    /\ UNCHANGED notIpc

\* The caller has its result and is free for its next call.
Return(c) ==
    /\ pc[c] = "done"
    /\ pc' = [pc EXCEPT ![c] = "idle"]
    /\ op' = [op EXCEPT ![c] = NoOp]
    /\ opRet' = [opRet EXCEPT ![c] = NoRet]
    /\ UNCHANGED <<connOpen, engineUp, toEngine, fromEngine, req, scanBuf,
                   skipped, matched, ipcRet>>
    /\ UNCHANGED notIpc

\* The engine takes the next request and answers it with the request's id; after
\* quit it gives up the connection, and with it the requests it has not taken.
EngineReply ==
    /\ engineUp
    /\ toEngine # <<>>
    /\ LET r == Head(toEngine)
       IN  /\ \E l \in ReplyLines(r) : fromEngine' = Append(fromEngine, l)
           /\ engineUp' = (r.cmd # "quit")
           /\ toEngine' = IF r.cmd = "quit" THEN <<>> ELSE Tail(toEngine)
    /\ UNCHANGED <<connOpen, pc, op, req, scanBuf, skipped, matched, ipcRet, opRet>>
    /\ UNCHANGED notIpc

\* The engine sends a line that answers no request. Such a line has an effect only
\* when a scan loop gets it, so it is sent when a caller waits to read the connection.
EngineNoise ==
    /\ engineUp
    /\ connOpen
    /\ fromEngine = <<>>
    /\ \E c \in Callers : pc[c] = "scan" /\ scanBuf[c] = <<>>
    /\ \E l \in NoiseLines : fromEngine' = Append(fromEngine, l)
    /\ UNCHANGED <<connOpen, engineUp, toEngine, pc, op, req, scanBuf, skipped, matched,
                   ipcRet, opRet>>
    /\ UNCHANGED notIpc

\* The engine process ends.
EngineExit ==
    /\ engineUp
    /\ engineUp' = FALSE
    /\ toEngine' = <<>>
    /\ UNCHANGED <<connOpen, fromEngine, pc, op, req, scanBuf, skipped,
                   matched, ipcRet, opRet>>
    /\ UNCHANGED notIpc

-----------------------------------------------------------------------------
(* The scrape backend: FFPlay, its playback clock and its diagnostic buffer *)

\* Time is counted in ticks; a second has this many.
TicksPerSecond == 2

\* Time is followed up to this many ticks.
MaxTime == 5

\* At most this many engine processes exist at a time (running, or finished and
\* still referenced).
MaxProcs == 2

\* A diagnostic buffer is followed up to this many tokens.
MaxBuf == 3

\* maxDuration is added to the accumulated duration up to this many times.
MaxSlip == 2

Pids == 1..MaxProcs

Urls == {"u1", "u2"}

\* The zero time.Time{} (IsZero), which is before every time of the model.
ZeroTime == -1

\* A time.Duration is a 64-bit count of nanoseconds. It is held as
\* hi * 2^63 ns + ticks + ns (mod 2^64), hi in {0, 1}, with ns a few nanoseconds.
Dur(hi, ticks, ns) == [hi |-> hi, ticks |-> ticks, ns |-> ns]

DurZero == Dur(0, 0, 0)

\* maxDuration = 1<<63 - 1 nanoseconds
MaxDuration == Dur(1, 0, -1)

\* d1 + d2 on int64: it wraps around.
DurAdd(d1, d2) == Dur((d1.hi + d2.hi) % 2, d1.ticks + d2.ticks, d1.ns + d2.ns)

\* The sign of ticks + ns, ns being smaller than a tick.
SmallNeg(d) == d.ticks < 0 \/ (d.ticks = 0 /\ d.ns < 0)

\* int64(d.Seconds()): whole seconds, truncated towards zero. A duration of the
\* order of 2^63 ns (about +-9223372036 s) is given by its sign, big, alone.
Seconds(d) ==
    IF d.hi = 1
    THEN [big |-> IF SmallNeg(d) THEN 1 ELSE -1, sec |-> 0]
    ELSE IF SmallNeg(d)
         THEN [big |-> 0,
               sec |-> 0 - ((IF d.ns > 0 THEN (0 - d.ticks) - 1 ELSE 0 - d.ticks)
                              \div TicksPerSecond)]
         ELSE [big |-> 0,
               sec |-> (IF d.ns < 0 THEN d.ticks - 1 ELSE d.ticks) \div TicksPerSecond]

\* time.Since(t) at the time at: at - t, saturated to maxDuration for the zero time.
Since(t, at) == IF t = ZeroTime THEN MaxDuration ELSE Dur(0, at - t, 0)

\* *time.Duration: nil, or a duration.
NilDuration == [set |-> FALSE, d |-> DurZero]

Ptr(d) == [set |-> TRUE, d |-> d]

\* The FFPlay struct with what its process handle refers to: the processes that
\* run (alive) and the buffer each process's stderr is collected in.
NewFFPlay ==
    [url |-> "", playing |-> 0, volume |-> 0,
     playedTime |-> NilDuration, playStartTime |-> ZeroTime,
     alive |-> {}, stderr |-> [p \in Pids |-> <<>>]]

Result(f, err) == [f |-> f, err |-> err]

\* playerutils.KillProcess: the process is terminated, or an error is returned.
KillOutcomes == {"ok", "kill error"}

\* exec.Command and cmd.Start: the engine starts, or an error (cmd.Err, or the
\* error of Start) is returned.
StartOutcomes == {"ok", "start error"}

resetPlayTime(f, at) == [f EXCEPT !.playedTime = NilDuration, !.playStartTime = at]

\* A pause that adds the running interval and leaves the start timestamp set.
pausePlayTime_KeepsStart(f, at) ==
    LET d == Since(f.playStartTime, at)
    IN  [f EXCEPT !.playedTime = IF f.playedTime.set THEN Ptr(DurAdd(f.playedTime.d, d))
                                                       ELSE Ptr(d)]

pausePlayTime(f, at) ==
    LET d == Since(f.playStartTime, at)
    IN  [f EXCEPT !.playedTime = IF f.playedTime.set THEN Ptr(DurAdd(f.playedTime.d, d))
                                                       ELSE Ptr(d),
                  !.playStartTime = ZeroTime]

resumePlayTime(f, at) == [f EXCEPT !.playStartTime = at]

getPlayTime(f, at) ==
    LET d1 == IF f.playedTime.set THEN f.playedTime.d ELSE DurZero
        d2 == IF f.playStartTime # ZeroTime
              THEN DurAdd(d1, Since(f.playStartTime, at)) ELSE d1
    IN  Seconds(d2)

\* stop(): the handle is dropped, then the process killed; kill is the outcome of
\* KillProcess.
stop(f, kill) ==
    IF f.playing = 0
    THEN Result(f, NoErr)
    ELSE Result([f EXCEPT !.playing = 0,
                          !.alive = IF kill = "ok" THEN @ \ {f.playing} ELSE @],
                IF kill = "ok" THEN NoErr ELSE kill)

\* A play that stores the URL before the engine is started.
play_UrlFirst(f, u, kill, start, pid) ==
    LET s == stop(f, kill)
    IN  IF s.err # NoErr THEN s
        ELSE IF start # "ok" THEN Result([s.f EXCEPT !.url = u], start)
        ELSE Result([s.f EXCEPT !.playing = pid, !.url = u,
                                !.alive = @ \cup {pid},
                                !.stderr = [@ EXCEPT ![pid] = <<>>]],
                    NoErr)

\* play(url): stop, then start the engine on url; pid is the new process.
play(f, u, kill, start, pid) ==
    LET s == stop(f, kill)
    IN  IF s.err # NoErr THEN s
        ELSE IF start # "ok" THEN Result(s.f, start)
        ELSE Result([s.f EXCEPT !.playing = pid, !.url = u,
                                !.alive = @ \cup {pid},
                                !.stderr = [@ EXCEPT ![pid] = <<>>]],
                    NoErr)

\* A Play that leaves the clock as it is.
Play_NoReset(f, u, kill, start, pid, at) == play(f, u, kill, start, pid)

\* Play(url)
Play(f, u, kill, start, pid, at) ==
    LET r == play(f, u, kill, start, pid)
    IN  IF r.err = NoErr THEN Result(resetPlayTime(r.f, at), NoErr) ELSE r

\* A Pause(false) that restarts the engine whatever the stored URL is.
HasUrl_Always(u) == TRUE

\* Pause(false) restarts the engine when a URL is stored.
HasUrl(u) == u # ""

\* Pause(value)
Pause(f, value, kill, start, pid, at) ==
    IF value
    THEN LET r == stop(f, kill)
         IN  IF r.err = NoErr THEN Result(pausePlayTime(r.f, at), NoErr) ELSE r
    ELSE IF HasUrl(f.url)
         THEN LET r == play(f, f.url, kill, start, pid)
              IN  IF r.err = NoErr THEN Result(resumePlayTime(r.f, at), NoErr) ELSE r
         ELSE Result(f, NoErr)

\* SetVolume(value): the value is stored when nothing plays; the stored value is
\* returned.
SetVolume(f, value) == IF f.playing = 0 THEN [f EXCEPT !.volume = value] ELSE f

\* The diagnostic text, token by token: the marker titleMsg ("T"), the three
\* strings of errs, a line break, white space, and any other text.
errs == <<"E1", "E2", "E3">>

titleMsg == "T"

Tokens == {titleMsg, "E1", "E2", "E3", "nl", "sp", "x"}

\* strings.Index(s, tok): the first place of tok in s, 0 if there is none.
RECURSIVE IndexFrom(_, _, _)
IndexFrom(s, tok, i) ==
    IF i > Len(s) THEN 0 ELSE IF s[i] = tok THEN i ELSE IndexFrom(s, tok, i + 1)

Index(s, tok) == IndexFrom(s, tok, 1)

\* strings.LastIndex(s, tok): the last place of tok in s, 0 if there is none.
RECURSIVE LastIndexFrom(_, _, _)
LastIndexFrom(s, tok, i) ==
    IF i < 1 THEN 0 ELSE IF s[i] = tok THEN i ELSE LastIndexFrom(s, tok, i - 1)

LastIndex(s, tok) == LastIndexFrom(s, tok, Len(s))

IsSpace(tok) == tok \in {"sp", "nl"}

\* strings.TrimSpace(s)
RECURSIVE TrimLeft(_)
TrimLeft(s) == IF s # <<>> /\ IsSpace(Head(s)) THEN TrimLeft(Tail(s)) ELSE s

RECURSIVE TrimRight(_)
TrimRight(s) ==
    IF s # <<>> /\ IsSpace(s[Len(s)]) THEN TrimRight(SubSeq(s, 1, Len(s) - 1)) ELSE s

TrimSpace(s) == TrimRight(TrimLeft(s))

\* s up to its first line break: `nlIx := strings.Index(s, "\n"); s = s[:nlIx]`.
FirstLine(s) == IF Index(s, "nl") > 0 THEN SubSeq(s, 1, Index(s, "nl") - 1) ELSE s

\* A *model.Metadata; nil is the nil pointer, Err = <<>> is the nil error.
NilMetadata == [nil |-> TRUE, Title |-> <<>>, Err |-> <<>>, PlaybackTimeSec |-> Seconds(DurZero)]

\* The loop over errs: the message of the first string of errs found in the text,
\* <<>> when none is.
RECURSIVE ErrMsgFrom(_, _)
ErrMsgFrom(out, k) ==
    IF k > Len(errs) THEN <<>>
    ELSE IF Index(out, errs[k]) = 0 THEN ErrMsgFrom(out, k + 1)
    ELSE TrimSpace(FirstLine(SubSeq(out, Index(out, errs[k]), Len(out))))

\* The title: the text after the last titleMsg.
TitleOf(out) ==
    IF LastIndex(out, titleMsg) > 0
    THEN TrimSpace(FirstLine(SubSeq(out, LastIndex(out, titleMsg) + 1, Len(out))))
    ELSE <<>>

\* A Metadata() that looks for the title first.
MetadataOf_TitleFirst(out, playTime) ==
    IF TitleOf(out) # <<>>
    THEN [nil |-> FALSE, Title |-> TitleOf(out), Err |-> <<>>,
          PlaybackTimeSec |-> playTime]
    ELSE [nil |-> FALSE, Title |-> <<>>, Err |-> ErrMsgFrom(out, 1),
          PlaybackTimeSec |-> playTime]

\* Metadata() from the text of the buffer on: an error found comes first.
MetadataOf(out, playTime) ==
    IF ErrMsgFrom(out, 1) # <<>>
    THEN [nil |-> FALSE, Title |-> <<>>, Err |-> ErrMsgFrom(out, 1),
          PlaybackTimeSec |-> playTime]
    ELSE [nil |-> FALSE, Title |-> TitleOf(out), Err |-> <<>>,
          PlaybackTimeSec |-> playTime]

\* What the control path's last call returned.
NoFFRet == [op |-> "none", err |-> NoErr, val |-> 0]

FFInit ==
    /\ ff = NewFFPlay
    /\ now = 0
    /\ pollPc = "idle"
    /\ pollP = 0
    /\ output = <<>>
    /\ meta = NilMetadata
    /\ ffRet = NoFFRet
    /\ playCalled = FALSE
    /\ scen = "off"
    /\ ranFor = 0
    /\ runA = 0
    /\ gap = 0

\* A nil-pointer fault in the poller's goroutine ends the program.
Running == pollPc # "fault"

\* The process a started engine gets: one that is neither running nor still
\* referenced; 0 if the model has none left.
FreshPid(used) ==
    IF Pids \ used = {} THEN 0
    ELSE CHOOSE p \in Pids \ used : \A q \in Pids \ used : p <= q

\* The buffers no reference leads to any more are dropped.
Collect(f, keep) == [f EXCEPT !.stderr = [p \in Pids |-> IF p \in keep THEN @[p] ELSE <<>>]]

\* The outcomes KillProcess can have in stop(): it is called when a process is
\* held.
KillsOf(f) == IF f.playing = 0 THEN {"ok"} ELSE KillOutcomes

\* The control path calls Play(u).
CallPlay ==
    /\ Running
    /\ \E u \in Urls, kill \in KillsOf(ff) :
       \E start \in IF kill = "ok" THEN StartOutcomes ELSE {"ok"} :
         LET pid == FreshPid(stop(ff, kill).f.alive \cup {pollP})
             r == Play(ff, u, kill, start, pid, now)
             inSeq == r.err = NoErr /\ r.f.alive = {pid}
         IN  /\ (stop(ff, kill).err = NoErr /\ start = "ok") => pid # 0
             /\ ff' = Collect(r.f, {r.f.playing, pollP})
             /\ ffRet' = [op |-> "Play", err |-> r.err, val |-> 0]
             /\ scen' = IF inSeq THEN "played" ELSE "off"
             /\ ranFor' = IF r.err = NoErr THEN 0 ELSE ranFor
    /\ playCalled' = TRUE
    /\ runA' = 0
    /\ gap' = 0
    /\ UNCHANGED <<now, pollPc, pollP, output, meta>>
    /\ UNCHANGED notFF

\* How often maxDuration was added to the accumulated duration.
Slips(f) == IF f.playedTime.set THEN 0 - f.playedTime.d.ns ELSE 0

\* The control path calls Pause(value).
CallPause ==
    /\ Running
    /\ \E value \in BOOLEAN, kill \in KillsOf(ff) :
       \E start \in IF ~value /\ HasUrl(ff.url) /\ kill = "ok" THEN StartOutcomes ELSE {"ok"} :
         LET pid == FreshPid(stop(ff, kill).f.alive \cup {pollP})
             r == Pause(ff, value, kill, start, pid, now)
             next == IF r.err # NoErr THEN "off"
                     ELSE IF value /\ scen = "played" THEN "paused"
                     ELSE IF ~value /\ scen = "paused" THEN "resumed"
                     ELSE "off"
         IN  /\ (value /\ ff.playStartTime = ZeroTime) => Slips(ff) < MaxSlip
             /\ (~value /\ HasUrl(ff.url) /\ stop(ff, kill).err = NoErr /\ start = "ok")
                    => pid # 0
             /\ ff' = Collect(r.f, {r.f.playing, pollP})
             /\ ffRet' = [op |-> IF value THEN "PauseTrue" ELSE "PauseFalse",
                          err |-> r.err, val |-> 0]
             /\ scen' = next
             /\ runA' = IF next = "paused" THEN ranFor ELSE IF next = "resumed" THEN runA ELSE 0
             /\ gap' = IF next = "resumed" THEN gap ELSE 0
    /\ UNCHANGED <<now, pollPc, pollP, output, meta, playCalled, ranFor>>
    /\ UNCHANGED notFF

\* The control path calls Stop().
CallStop ==
    /\ Running
    /\ \E kill \in KillsOf(ff) :
         LET r == stop(ff, kill)
             next == IF r.err = NoErr /\ scen = "resumed" THEN "stopped" ELSE "off"
         IN  /\ ff' = Collect(r.f, {r.f.playing, pollP})
             /\ ffRet' = [op |-> "Stop", err |-> r.err, val |-> 0]
             /\ scen' = next
             /\ runA' = IF next = "stopped" THEN runA ELSE 0
             /\ gap' = IF next = "stopped" THEN gap ELSE 0
    /\ UNCHANGED <<now, pollPc, pollP, output, meta, playCalled, ranFor>>
    /\ UNCHANGED notFF

\* The control path calls SetVolume(value).
CallSetVolume ==
    /\ Running
    /\ \E value \in VolumeInputs :
         /\ ff' = SetVolume(ff, value)
         /\ ffRet' = [op |-> "SetVolume", err |-> NoErr, val |-> ff'.volume,
                      arg |-> value, playing |-> ff.playing # 0]
    /\ UNCHANGED <<now, pollPc, pollP, output, meta, playCalled, scen, ranFor, runA, gap>>
    /\ UNCHANGED notFF

\* Time passes. ranFor is the time the player has held a process since the last
\* successful Play, gap the time of the pause of the sequence followed by scen;
\* "stopped" is the moment Stop returns.
Tick ==
    /\ Running
    /\ now < MaxTime
    /\ now' = now + 1
    /\ ranFor' = IF ff.playing # 0 THEN ranFor + 1 ELSE ranFor
    /\ gap' = IF scen = "paused" THEN gap + 1 ELSE IF scen = "stopped" THEN 0 ELSE gap
    /\ runA' = IF scen = "stopped" THEN 0 ELSE runA
    /\ scen' = IF scen = "stopped" THEN "off" ELSE scen
    /\ UNCHANGED <<ff, pollPc, pollP, output, meta, ffRet, playCalled>>
    /\ UNCHANGED notFF

\* An engine process ends by itself (-autoexit, or a fatal error).
ProcExit ==
    /\ Running
    /\ \E p \in ff.alive : ff' = [ff EXCEPT !.alive = @ \ {p}]
    /\ UNCHANGED <<now, pollPc, pollP, output, meta, ffRet, playCalled, scen, ranFor, runA, gap>>
    /\ UNCHANGED notFF

\* The running engine of the player writes to its stderr, which os/exec copies
\* into the buffer. (A process the player has dropped can write as well; what a
\* poll can then read from its buffer, it can read from it without this write.)
EngineWrite ==
    /\ Running
    /\ ff.playing \in ff.alive
    /\ Len(ff.stderr[ff.playing]) < MaxBuf
    /\ \E tok \in Tokens : ff' = [ff EXCEPT !.stderr[ff.playing] = Append(@, tok)]
    /\ UNCHANGED <<now, pollPc, pollP, output, meta, ffRet, playCalled, scen, ranFor, runA, gap>>
    /\ UNCHANGED notFF

\* Metadata(), the poller's call: `f.playing == nil` is read first. (The Stderr
\* of a started process is never nil: stop() clears it on a copy of the Cmd.)
PollCheck ==
    /\ pollPc = "idle"
    /\ IF ff.playing = 0
       THEN /\ pollPc' = "done"
            /\ meta' = NilMetadata
            /\ pollP' = 0
       ELSE /\ pollPc' = "checked"
            /\ pollP' = ff.playing
            /\ meta' = meta
    /\ UNCHANGED <<ff, now, output, ffRet, playCalled, scen, ranFor, runA, gap>>
    /\ UNCHANGED notFF

\* Metadata() then reads f.playing.Stderr. No lock orders this read with the
\* control path's writes of f.playing: it gives the pointer checked before or the
\* field's present value, and faults on nil.
PollRead ==
    /\ pollPc = "checked"
    /\ \E p \in {pollP, ff.playing} :
         IF p = 0
         THEN /\ pollPc' = "fault"
              /\ UNCHANGED <<output, meta, pollP>>
         ELSE /\ pollPc' = "done"
              /\ pollP' = p
              /\ output' = ff.stderr[p]
              /\ meta' = MetadataOf(ff.stderr[p], getPlayTime(ff, now))
    /\ UNCHANGED <<ff, now, ffRet, playCalled, scen, ranFor, runA, gap>>
    /\ UNCHANGED notFF

\* Metadata() returns and the poller waits for its next round.
PollReturn ==
    /\ pollPc = "done"
    /\ pollPc' = "idle"
    /\ pollP' = 0
    /\ output' = <<>>
    /\ meta' = NilMetadata
    /\ ff' = Collect(ff, {ff.playing})
    /\ UNCHANGED <<now, ffRet, playCalled, scen, ranFor, runA, gap>>
    /\ UNCHANGED notFF

\* Calls made one at a time: Play and Stop while no Metadata() call is under way.
SeqPlay == pollPc = "idle" /\ CallPlay

SeqStop == pollPc = "idle" /\ CallStop

SeqPause == pollPc = "idle" /\ CallPause

-----------------------------------------------------------------------------
(* The clock operations of FFPlay, statement by statement, under playTimeMtx *)

\* The goroutines that use the clock: the control path (resetPlayTime,
\* pausePlayTime, resumePlayTime, from Play and Pause) and the poller
\* (getPlayTime, from Metadata).
Threads == {"ctl", "poll"}

ClockOps(t) == IF t = "ctl" THEN {"reset", "pause", "resume"} ELSE {"get"}

NoClockOp == [op |-> "none", pc |-> "idle"]

MtxInit ==
    /\ mtx = "none"
    /\ clk = [t \in Threads |-> NoClockOp]
    /\ clkD = DurZero
    /\ clkAt = 0
    /\ clkRet = Seconds(DurZero)

\* A Lock that lets a goroutine in whoever holds the mutex.
CanLock_Always(m) == TRUE

\* f.playTimeMtx.Lock() goes on when no goroutine holds the mutex.
CanLock(m) == m = "none"

\* pausePlayTime up to `*f.playedTime += d`.
pauseAdd(f, at) ==
    LET d == Since(f.playStartTime, at)
    IN  [f EXCEPT !.playedTime = IF f.playedTime.set THEN Ptr(DurAdd(f.playedTime.d, d))
                                                       ELSE Ptr(d)]

\* pausePlayTime's `f.playStartTime = time.Time{}`.
pauseClear(f) == [f EXCEPT !.playStartTime = ZeroTime]

\* resetPlayTime's `f.playedTime = nil`.
resetPlayed(f) == [f EXCEPT !.playedTime = NilDuration]

\* resetPlayTime's `f.playStartTime = time.Now()`, and resumePlayTime's.
setStart(f, at) == [f EXCEPT !.playStartTime = at]

\* What leaves the other variables of the scrape backend alone.
ffRest == <<now, pollPc, pollP, output, meta, ffRet, playCalled, scen, ranFor, runA, gap>>

\* A goroutine enters a clock operation.
ClockCall(t) ==
    /\ clk[t].pc = "idle"
    /\ \E o \in ClockOps(t) :
         /\ (o = "pause" /\ ff.playStartTime = ZeroTime) => Slips(ff) < MaxSlip
         /\ clk' = [clk EXCEPT ![t] = [op |-> o, pc |-> "lock"]]
    /\ UNCHANGED <<ff, ffRest, mtx, clkD, clkAt, clkRet>>
    /\ UNCHANGED <<ctorVars, ipcVars>>

\* f.playTimeMtx.Lock()
ClockLock(t) ==
    /\ clk[t].pc = "lock"
    /\ CanLock(mtx)
    /\ mtx' = t
    /\ clk' = [clk EXCEPT ![t].pc = "first"]
    /\ UNCHANGED <<ff, ffRest, clkD, clkAt, clkRet>>
    /\ UNCHANGED <<ctorVars, ipcVars>>

\* The first statement of the operation on the clock's fields.
ClockFirst(t) ==
    /\ clk[t].pc = "first"
    /\ CASE clk[t].op = "reset" ->
              /\ ff' = resetPlayed(ff)
              /\ clk' = [clk EXCEPT ![t].pc = "second"]
              /\ UNCHANGED clkD
         [] clk[t].op = "pause" ->
              /\ ff' = pauseAdd(ff, now)
              /\ clk' = [clk EXCEPT ![t].pc = "second"]
              /\ UNCHANGED clkD
         [] clk[t].op = "resume" ->
              /\ ff' = setStart(ff, now)
              /\ clk' = [clk EXCEPT ![t].pc = "unlock"]
              /\ UNCHANGED clkD
         [] clk[t].op = "get" ->
              /\ clkD' = IF ff.playedTime.set THEN ff.playedTime.d ELSE DurZero
              /\ clk' = [clk EXCEPT ![t].pc = "second"]
              /\ UNCHANGED ff
    /\ UNCHANGED <<ffRest, mtx, clkAt, clkRet>>
    /\ UNCHANGED <<ctorVars, ipcVars>>

\* The second statement of the operation on the clock's fields.
ClockSecond(t) ==
    /\ clk[t].pc = "second"
    /\ CASE clk[t].op = "reset" ->
              /\ ff' = setStart(ff, now)
              /\ UNCHANGED <<clkD, clkAt, clkRet>>
         [] clk[t].op = "pause" ->
              /\ ff' = pauseClear(ff)
              /\ UNCHANGED <<clkD, clkAt, clkRet>>
         [] clk[t].op = "get" ->
              LET d == IF ff.playStartTime # ZeroTime
                       THEN DurAdd(clkD, Since(ff.playStartTime, now)) ELSE clkD
              IN  /\ clkD' = d
                  /\ clkAt' = now
                  /\ clkRet' = Seconds(d)
                  /\ UNCHANGED ff
    /\ clk' = [clk EXCEPT ![t].pc = "unlock"]
    /\ UNCHANGED <<ffRest, mtx>>
    /\ UNCHANGED <<ctorVars, ipcVars>>

\* The deferred f.playTimeMtx.Unlock(), and the return.
ClockUnlock(t) ==
    /\ clk[t].pc = "unlock"
    /\ mtx' = "none"
    /\ clk' = [clk EXCEPT ![t] = NoClockOp]
    /\ UNCHANGED <<ff, ffRest, clkD, clkAt, clkRet>>
    /\ UNCHANGED <<ctorVars, ipcVars>>

-----------------------------------------------------------------------------
(* The socket backend: the Metadata value made of two ipcRequest results *)

ErrNoMetadata == "no metadata"

\* json.Unmarshal([]byte(resS), &m) into icyMetadata: the text "{icy-title}" is an
\* object whose icy-title has white space before the title; any other text is
\* not JSON.
UnmarshalIcy(s) ==
    IF s = "{icy-title}"
    THEN [ok |-> TRUE, Title |-> <<"sp", "x">>]
    ELSE [ok |-> FALSE, Title |-> <<>>]

\* getMetadata(), ret being what its ipcRequest returned. Err = NoErr is the nil
\* error, PlaybackTimeSec = Nil the nil pointer.
getMetadata(ret) ==
    IF ret.err # NoErr
    THEN [Title |-> <<>>, Err |-> ret.err, PlaybackTimeSec |-> Nil]
    ELSE IF ret.data.t # "string" \/ ret.data.s = ""
    THEN [Title |-> <<>>, Err |-> ErrNoMetadata, PlaybackTimeSec |-> Nil]
    ELSE IF ~UnmarshalIcy(ret.data.s).ok
    THEN [Title |-> <<>>, Err |-> "metadata unmarhsal err", PlaybackTimeSec |-> Nil]
    ELSE [Title |-> TrimSpace(UnmarshalIcy(ret.data.s).Title), Err |-> NoErr,
          PlaybackTimeSec |-> Nil]

\* Metadata(): first what getMetadata's request returned, second what the
\* playback-time request returned (`res, _ :=`: its error is not looked at).
MpvMetadata(first, second) ==
    IF second.data.t = "float64"
    THEN [getMetadata(first) EXCEPT
             !.PlaybackTimeSec = Num(IF second.data.n < 0 THEN 0 ELSE second.data.n)]
    ELSE getMetadata(first)

-----------------------------------------------------------------------------
(* Specifications *)

Init == CtorInit /\ IpcInit /\ FFInit /\ MtxInit

NextCtor ==
    \/ CtorMpvCmd
    \/ CtorLoop
    \/ CtorGetConn
    \/ CtxCancel
    \/ EngineCreatesSocket

SpecCtor == Init /\ [][NextCtor]_vars

NextIpc ==
    \/ CtlCall
    \/ PollCall
    \/ \E c \in Callers : IpcScan(c)
    \/ \E c \in Callers : OpStep(c)
    \/ \E c \in Callers : Return(c)
    \/ EngineReply
    \/ EngineNoise
    \/ EngineExit

SpecIpc == Init /\ [][NextIpc]_vars

\* The callers' goroutines are scheduled again and again, and the engine goes on
\* writing lines that answer no request; nothing makes the engine answer.
SpecIpcLive ==
    /\ SpecIpc
    /\ \A c \in Callers : WF_vars(IpcScan(c)) /\ WF_vars(OpStep(c)) /\ WF_vars(Return(c))
    /\ WF_vars(EngineNoise)

NextClock ==
    \/ CallPlay
    \/ CallPause
    \/ CallStop
    \/ Tick
    \/ ProcExit

SpecClock == Init /\ [][NextClock]_vars

\* The control path alone, with time: Play, Pause and Stop calls one after the
\* other, each with every outcome of the kill and of the start.
NextPlay ==
    \/ CallPlay
    \/ CallPause
    \/ CallStop
    \/ Tick

SpecPlay == Init /\ [][NextPlay]_vars

NextFF ==
    \/ CallPlay
    \/ CallPause
    \/ CallStop
    \/ CallSetVolume
    \/ ProcExit
    \/ PollCheck
    \/ PollRead
    \/ PollReturn

SpecFF == Init /\ [][NextFF]_vars

NextMtx ==
    \/ \E t \in Threads : ClockCall(t)
    \/ \E t \in Threads : ClockLock(t)
    \/ \E t \in Threads : ClockFirst(t)
    \/ \E t \in Threads : ClockSecond(t)
    \/ \E t \in Threads : ClockUnlock(t)
    \/ Tick

SpecMtx == Init /\ [][NextMtx]_vars

NextPoll ==
    \/ SeqPlay
    \/ SeqPause
    \/ SeqStop
    \/ Tick
    \/ PollCheck
    \/ PollRead
    \/ PollReturn

SpecPoll == Init /\ [][NextPoll]_vars

NextScrape ==
    \/ SeqPlay
    \/ SeqStop
    \/ EngineWrite
    \/ PollCheck
    \/ PollRead
    \/ PollReturn

SpecScrape == Init /\ [][NextScrape]_vars

-----------------------------------------------------------------------------
\* C1: while the constructor is still in its wait loop, no more than the hard
\* socket timeout has elapsed: a socket file that never appears ends the wait
\* with the timeout error.
C1_WaitEndsAtTimeout == ctorPc = "loop" => ctorClock <= socketTimeout

\* C2: an ipcRequest that has returned skipped only lines that are no response to
\* its id, and answered with the first line that is one: the data it returns is
\* that line's data (no data with an error, when the line's status is not success),
\* and without such a line it returns an error and no data.
C2_AnswerIsFirstMatchingLine ==
    \A c \in Callers :
       /\ "match" \notin skipped[c]
       /\ pc[c] = "scan" => matched[c] = NoLine
       /\ pc[c] = "ret" =>
             IF matched[c] = NoLine
             THEN ipcRet[c].data = Nil /\ ipcRet[c].err # NoErr
             ELSE /\ matched[c].kind = "resp"
                  /\ matched[c].id = req[c].id
                  /\ IF matched[c].error = "success"
                     THEN ipcRet[c] = [data |-> matched[c].data, err |-> NoErr]
                     ELSE ipcRet[c] = [data |-> Nil, err |-> "ipc response error"]

\* A caller got its own answer after skipping a line that is no response and a
\* response with another id.
C2_Witness ==
    \E c \in Callers :
       /\ pc[c] = "ret"
       /\ skipped[c] = {"noise", "other"}
       /\ matched[c].owner = c
       /\ ipcRet[c].err = NoErr
       /\ ipcRet[c].data # Nil

\* C3: two callers are never both between the write of their request and the
\* return of ipcRequest on the shared connection.
C3_RequestResponseExclusive == ~(pc["ctl"] = "scan" /\ pc["poll"] = "scan")

\* C4: a caller never gets the response to the other caller's request as its
\* result, and a scanner never takes the other caller's response off the
\* connection (where it is dropped, skipped or not).
C4_NoCrossTalk ==
    \A c \in Callers :
       /\ matched[c].owner # Other(c)
       /\ \A i \in DOMAIN scanBuf[c] : scanBuf[c][i].owner # Other(c)

\* The elapsed time that is n ticks, in whole seconds.
WholeSeconds(n) == [big |-> 0, sec |-> n \div TicksPerSecond]

\* C5: along Play, Pause(true), Pause(false), Stop, each successful, the elapsed
\* time is the time a process was held (the run before the pause and the run
\* after it, without the gap between them) in whole seconds, and when Stop
\* returns no process is held or running.
C5_ElapsedCountsRunningOnly ==
    /\ scen # "off" => getPlayTime(ff, now) = WholeSeconds(ranFor)
    /\ scen \in {"paused", "resumed", "stopped"} => runA <= ranFor
    /\ scen = "paused" => ranFor = runA
    /\ scen = "stopped" => ff.playing = 0 /\ ff.alive = {}

\* Stop has returned after a run of one tick, a pause of at least one tick and a
\* second run of one tick: the elapsed time is the second the two runs make.
C5_Witness ==
    /\ scen = "stopped"
    /\ runA = 1
    /\ ranFor = 2
    /\ gap >= 1
    /\ getPlayTime(ff, now) = [big |-> 0, sec |-> 1]

\* C6: after a successful Pause(true) and until the next call, the elapsed time
\* is the time a process was held since the last successful Play, in whole
\* seconds, whatever time passes.
C6_PauseFreezesAtRunTime ==
    (ffRet.op = "PauseTrue" /\ ffRet.err = NoErr)
        => getPlayTime(ff, now) = WholeSeconds(ranFor)

\* C7: the value SetVolume returns is within 0..100.
C7_SetVolumeInRange == ffRet.op = "SetVolume" => ffRet.val \in 0..100

\* The text has one of the strings of errs.
HasError(out) == \E i \in DOMAIN out : \E k \in DOMAIN errs : out[i] = errs[k]

\* t is the text between the last marker of out and the next line break (or the
\* end of out), without the white space around it.
IsTitleOf(t, out) ==
    IF \A i \in DOMAIN out : out[i] # titleMsg
    THEN t = <<>>
    ELSE \E i \in DOMAIN out, j \in 0..Len(out) :
            /\ out[i] = titleMsg
            /\ \A k \in (i + 1)..Len(out) : out[k] # titleMsg
            /\ j >= i
            /\ \A k \in (i + 1)..j : out[k] # "nl"
            /\ j = Len(out) \/ out[j + 1] = "nl"
            /\ \E a \in (i + 1)..(j + 1), b \in i..j :
                  /\ t = SubSeq(out, a, b)
                  /\ \A k \in ((i + 1)..(a - 1)) \cup ((b + 1)..j) : out[k] = "sp"
                  /\ a <= b => out[a] # "sp" /\ out[b] # "sp"
                  /\ a > b => a = b + 1

\* C8: a Metadata made from a text with an error string carries an error, which
\* starts at an error string, and no title, wherever the marker is; one made from
\* a text without an error string carries no error, and as title the trimmed
\* text between the last marker and the next line break.
C8_ErrorBeforeTitle ==
    (pollPc = "done" /\ ~meta.nil) =>
        IF HasError(output)
        THEN /\ meta.Title = <<>>
             /\ meta.Err # <<>>
             /\ \E k \in DOMAIN errs : meta.Err[1] = errs[k]
        ELSE /\ meta.Err = <<>>
             /\ IsTitleOf(meta.Title, output)

\* Metadata() has read a text with an error string and, later in it, a marker
\* followed by a title.
C8_Witness ==
    /\ pollPc = "done"
    /\ \E i, j \in DOMAIN output :
          /\ i < j
          /\ j < Len(output)
          /\ HasError(<<output[i]>>)
          /\ output[j] = titleMsg
          /\ output[j + 1] = "x"
    /\ meta.Err # <<>>
    /\ meta.Title = <<>>

\* C9: a Metadata() poll never faults on a process handle that became nil
\* between its check and its read.
C9_PollNeverFaults == pollPc # "fault"

\* C10: while Play has not been called, a step after which the last call is
\* Pause(false) leaves the process handle, the processes, the stored URL, the
\* volume and the clock as they were, and the call returned no error.
C10_PauseFalseBeforePlay ==
    [][(~playCalled' /\ ffRet'.op = "PauseFalse")
          => /\ ffRet'.err = NoErr
             /\ ff' = ff]_vars

\* Pause(false) has returned on a player whose Play was never called, with a
\* volume stored.
C10_Witness ==
    /\ ~playCalled
    /\ ffRet.op = "PauseFalse"
    /\ ff.volume = 50
    /\ ff.url = ""
    /\ ff.playing = 0

\* The positions of a clock operation between Lock and Unlock.
InClock(t) == clk[t].pc \in {"first", "second", "unlock"}

\* C11: the clock operations exclude each other: the poller's getPlayTime and
\* an operation of the control path are never both between Lock and Unlock, so
\* getPlayTime reads no clock that pausePlayTime or resetPlayTime has half
\* updated, and what it returns is the elapsed time of the clock as it stands.
C11_ClockOpsExclusive ==
    /\ ~(InClock("ctl") /\ InClock("poll"))
    /\ \A t \in Threads : InClock(t) => mtx = t
    /\ (InClock("poll") /\ clk["ctl"].op \in {"pause", "reset"}) => clk["ctl"].pc # "second"
    /\ clk["poll"].pc = "unlock" => clkRet = getPlayTime(ff, clkAt)

\* getPlayTime waits at Lock while pausePlayTime has added the running interval
\* and not yet cleared the start timestamp.
C11_Witness ==
    /\ clk["poll"] = [op |-> "get", pc |-> "lock"]
    /\ clk["ctl"] = [op |-> "pause", pc |-> "second"]
    /\ mtx = "ctl"
    /\ ff.playStartTime # ZeroTime
    /\ ff.playedTime.set
    /\ ff.playedTime.d.ticks > 0

\* C12: when Stop() has returned, and until the next call, the player holds no
\* process handle and none of the processes it started runs.
C12_StopLeavesNoProcess ==
    ffRet.op = "Stop" => ff.playing = 0 /\ ff.alive = {}

\* The request lines of caller c the engine has not taken yet, oldest first.
Sent(c) == SelectSeq(toEngine, LAMBDA l : l.from = c)

\* C13: the request a Play has written last is the unpause command while it is
\* in its first request; it is in its second request, the load command written
\* directly after the unpause command, only after the unpause request returned
\* without error; and a Play that returns from its first request returns that
\* request's error.
C13_UnpauseThenLoad ==
    \A c \in Callers :
       op[c].name = "Play" =>
          /\ op[c].step \in {1, 2}
          /\ (op[c].step = 1 /\ pc[c] \in {"scan", "ret"}) => req[c].cmd = "unpause"
          /\ (op[c].step = 1 /\ pc[c] = "scan" /\ Sent(c) # <<>>) =>
                Sent(c)[Len(Sent(c))].cmd = "unpause"
          /\ (op[c].step = 2 /\ pc[c] \in {"scan", "ret"}) =>
                /\ req[c].cmd = "play"
                /\ opRet[c].err = NoErr
          /\ (op[c].step = 2 /\ pc[c] = "scan" /\ Sent(c) # <<>>) =>
                /\ Sent(c)[Len(Sent(c))].cmd = "play"
                /\ Len(Sent(c)) >= 2 => Sent(c)[Len(Sent(c)) - 1].cmd = "unpause"
          /\ (op[c].step = 1 /\ pc[c] = "done") => opRet[c].err # NoErr

\* The load command of a Play is with the engine, the unpause command having
\* been answered.
C13_Witness ==
    /\ op["ctl"].name = "Play"
    /\ op["ctl"].step = 2
    /\ pc["ctl"] = "scan"
    /\ \E i \in DOMAIN toEngine : toEngine[i].from = "ctl" /\ toEngine[i].cmd = "play"

\* C14: a Close in progress has made the quit request with the connection still
\* open; when it returns the connection is closed, whatever quit returned, and
\* its error is that of quit if quit failed, else that of closing the connection
\* (none when that succeeded as well).
C14_QuitThenClose ==
    [][\A c \in Callers :
          /\ (op'[c].name = "Close" /\ pc'[c] \in {"scan", "ret"}) =>
                connOpen' /\ req'[c].cmd = "quit"
          /\ (op[c].name = "Close" /\ pc[c] = "ret" /\ pc'[c] = "done") =>
                /\ ~connOpen'
                /\ opRet'[c].name = "Close"
                /\ opRet'[c].err = IF ipcRet[c].err # NoErr THEN ipcRet[c].err
                                   ELSE opRet'[c].closeErr]_vars

\* Close has returned the error of closing the connection.
C14_Witness ==
    /\ pc["ctl"] = "done"
    /\ opRet["ctl"].name = "Close"
    /\ opRet["ctl"].closeErr = "close error"
    /\ opRet["ctl"].err = "close error"
    /\ ~connOpen

\* C15: after SetVolume(v) called while a process plays, and until the next
\* call, v is the stored volume and the value that was returned.
C15_VolumeStoredWhilePlaying ==
    (ffRet.op = "SetVolume" /\ ffRet.playing)
        => ff.volume = ffRet.arg /\ ffRet.val = ffRet.arg

\* C16: when the constructor has returned the cancellation or the timeout error,
\* no connection was made, and an engine that was started is held by the object
\* the constructor returned.
C16_FailedCtorKeepsProcess ==
    (ctorPc = "done" /\ ctorErr \in {"ErrCtxCancel", "ErrSocketFileTimeout"})
        => /\ ~ctorConn
           /\ mpvCmdStarted => ctorRet = "mpv"

\* C17: once the context is cancelled during the wait, the constructor sleeps no
\* more and goes nowhere but to its return, with the cancellation error, no
\* object and no connection.
C17_CancelAbortsWait ==
    [][(ctorPc = "loop" /\ ctxDone)
          => /\ ctorClock' = ctorClock
             /\ ctorPc' \in {"loop", "done"}
             /\ ctorPc' = "done" =>
                   /\ ctorErr' = "ErrCtxCancel"
                   /\ ctorRet' = "nil"
                   /\ ~ctorConn']_vars

\* The constructor returned the cancellation error after waiting, although the
\* socket file had appeared.
C17_Witness ==
    /\ ctorPc = "done"
    /\ ctorErr = "ErrCtxCancel"
    /\ ctorClock > 0
    /\ sockFileExists

\* C18: a caller that is reading the connection in ipcRequest eventually gets
\* out of it.
C18_IpcRequestReturns ==
    \A c \in Callers : (pc[c] = "scan") ~> (pc[c] # "scan")

\* C19: a Metadata() that follows a successful Play within less than a second,
\* with nothing in the engine's buffer, is not nil and has an empty title, no
\* error and a playback time of 0 seconds.
C19_MetadataRightAfterPlay ==
    (/\ pollPc = "done"
     /\ ffRet.op = "Play"
     /\ ffRet.err = NoErr
     /\ output = <<>>
     /\ ranFor < TicksPerSecond)
        => meta = [nil |-> FALSE, Title |-> <<>>, Err |-> <<>>,
                   PlaybackTimeSec |-> Seconds(DurZero)]

\* Metadata() has returned after a Play that was called when time had passed,
\* and before a second has passed since.
C19_Witness ==
    /\ pollPc = "done"
    /\ ffRet.op = "Play"
    /\ ffRet.err = NoErr
    /\ output = <<>>
    /\ now >= TicksPerSecond + 1
    /\ ranFor = 1
    /\ meta.PlaybackTimeSec = Seconds(DurZero)
    /\ ~meta.nil

\* C20: a Metadata value never has both an error and a title, and whenever a
\* request or the engine failed during the poll the returned value has its error
\* set: for the socket backend at the return of Metadata() from its two requests,
\* for the scrape backend at the return of Metadata() from the text it read.
C20_FaultInsideMetadata ==
    /\ \A c \in Callers :
          (pc[c] = "ret" /\ op[c].name = "Metadata" /\ op[c].step = 2) =>
             LET first == [data |-> opRet[c].val, err |-> opRet[c].err]
                 m == MpvMetadata(first, ipcRet[c])
             IN  /\ ~(m.Err # NoErr /\ m.Title # <<>>)
                 /\ (first.err # NoErr \/ ipcRet[c].err # NoErr) => m.Err # NoErr
    /\ (pollPc = "done" /\ ~meta.nil) =>
          /\ ~(meta.Err # <<>> /\ meta.Title # <<>>)
          /\ HasError(output) => meta.Err # <<>>

\* C21: a Play(url) that returns nil has stopped the process held before it,
\* holds exactly one new running process and reads zero elapsed time; a Play
\* that returns an error holds no process, has started none, and has left the
\* stored URL and the clock as they were.
C21_PlayAllOrNothing ==
    [][(ffRet'.op = "Play" /\ now' = now /\ CallPlay) =>
         IF ffRet'.err = NoErr
         THEN /\ ff'.playing \in ff'.alive
              /\ ff'.alive = (ff.alive \ {ff.playing}) \cup {ff'.playing}
              /\ Cardinality(ff'.alive) = Cardinality(ff.alive \ {ff.playing}) + 1
              /\ ff'.url \in Urls
              /\ ~ff'.playedTime.set
              /\ ff'.playStartTime = now'
              /\ getPlayTime(ff', now') = Seconds(DurZero)
         ELSE /\ ff'.playing = 0
              /\ ff'.alive \subseteq ff.alive
              /\ ff'.url = ff.url
              /\ ff'.playedTime = ff.playedTime
              /\ ff'.playStartTime = ff.playStartTime]_vars

\* A Play has failed to start the engine for a player that had played u1 and was
\* paused after some time: the URL and the accumulated time are still there.
C21_Witness ==
    /\ ffRet.op = "Play"
    /\ ffRet.err = "start error"
    /\ ff.url = "u1"
    /\ ff.playing = 0
    /\ ff.playedTime.set
    /\ ff.playedTime.d.ticks > 0
    /\ ff.playStartTime = ZeroTime

\* C22: the playback time of a returned Metadata is absent or not negative: for
\* the scrape backend at the return of Metadata(), for the socket backend in the
\* value Metadata() makes of its two requests.
C22_PlaybackTimeNotNegative ==
    /\ (pollPc = "done" /\ ~meta.nil) =>
          meta.PlaybackTimeSec.big >= 0 /\ meta.PlaybackTimeSec.sec >= 0
    /\ \A c \in Callers :
          (pc[c] = "ret" /\ op[c].name = "Metadata" /\ op[c].step = 2) =>
             LET m == MpvMetadata([data |-> opRet[c].val, err |-> opRet[c].err],
                                  ipcRet[c])
             IN  m.PlaybackTimeSec = Nil \/ m.PlaybackTimeSec.n >= 0

\* C23: between the calls of the control path at most one engine process started
\* by the player runs, and a process that runs is the one the player's handle
\* refers to.
C23_AliveProcessIsHeld ==
    /\ Cardinality(ff.alive) <= 1
    /\ \A p \in ff.alive : ff.playing = p

====
